---- MODULE Spec2Model ----
(***************************************************************************)
(* A model of tentd's HMAC request authentication (tentd/utils/auth.py)    *)
(* and of the follower views it guards.                                    *)
(*                                                                         *)
(* A Python string is a sequence of one-character strings.  The one        *)
(* exception is the base64 text of a digest: its 43 data characters are    *)
(* one element (they are never split by any operation of the code), and    *)
(* they are followed by the padding character "=" that the base64 of a     *)
(* 32-byte digest always carries.                                          *)
(***************************************************************************)
EXTENDS Integers, Sequences, FiniteSets, TLC

VARIABLES
    keypairs,   \* the stored KeyPair documents: a set of [mac_id, mac_key]
    issuer,     \* per issuing process: its position and the pair it holds
    request,    \* the request the last call was made for
    call,       \* the last call of a function of auth.py: [fn, key, result]
    response,   \* what the guarded view returned for `request` (wrapped)
    invoked,    \* how many times wrapped called the protected view for it
    handled,    \* number of requests the guarded views have answered
    executed,   \* the operation of FollowerView that ran for `request`
    profiles,   \* the stored rows of the profile table
    created     \* the last creation of a profile: [cls, kwargs, result]

vars == <<keypairs, issuer, request, call, response, invoked, handled,
          executed, profiles, created>>

-----------------------------------------------------------------------------
(* Bounds of the model *)

NumIssuers == 2
MaxHandled == 2
MaxProfiles == 3

Issuers == 1..NumIssuers

-----------------------------------------------------------------------------
(* Python's str methods, on sequences of characters *)

Whitespace == {" ", "\t", "\n"}
Quote == {"\""}

RECURSIVE lstrip(_, _)
lstrip(s, chars) ==
    IF s # <<>> /\ Head(s) \in chars THEN lstrip(Tail(s), chars) ELSE s

RECURSIVE rstrip(_, _)
rstrip(s, chars) ==
    IF s # <<>> /\ s[Len(s)] \in chars
    THEN rstrip(SubSeq(s, 1, Len(s) - 1), chars)
    ELSE s

strip(s, chars) == rstrip(lstrip(s, chars), chars)

startswith(s, prefix) ==
    /\ Len(s) >= Len(prefix)
    /\ SubSeq(s, 1, Len(prefix)) = prefix

\* s.find(c), counted from 1: the index of the first c in s, 0 when there
\* is none
RECURSIVE find_from(_, _, _)
find_from(s, c, i) ==
    IF i > Len(s) THEN 0
    ELSE IF s[i] = c THEN i
    ELSE find_from(s, c, i + 1)

find(s, c) == find_from(s, c, 1)

\* s.split(c)
RECURSIVE split(_, _)
split(s, c) ==
    LET i == find(s, c)
    IN  IF i = 0 THEN <<s>>
        ELSE <<SubSeq(s, 1, i - 1)>> \o split(SubSeq(s, i + 1, Len(s)), c)

\* s.split(c, 1)
split1(s, c) ==
    LET i == find(s, c)
    IN  IF i = 0 THEN <<s>>
        ELSE <<SubSeq(s, 1, i - 1), SubSeq(s, i + 1, Len(s))>>

\* sep.join(parts)
RECURSIVE join(_, _)
join(sep, parts) ==
    IF parts = <<>> THEN <<>>
    ELSE IF Len(parts) = 1 THEN parts[1]
    ELSE parts[1] \o sep \o join(sep, Tail(parts))

\* the characters of a sequence as one TLA+ string
RECURSIVE Text(_)
Text(s) == IF s = <<>> THEN "" ELSE Head(s) \o Text(Tail(s))

-----------------------------------------------------------------------------
(* What a call yields: a value, or the exception it raises *)

Returns(v) == [kind |-> "return", val |-> v]
Raises(e)  == [kind |-> "raise", val |-> e]

\* the keys of the Authorization header
K_id    == <<"i", "d">>
K_ts    == <<"t", "s">>
K_nonce == <<"n", "o", "n", "c", "e">>
K_mac   == <<"m", "a", "c">>
K_ext   == <<"e", "x", "t">>

MAC_ == <<"M", "A", "C", " ">>

\* parse_authstring's two kinds of value: False, or the dict avars
PyFalse == [type |-> "bool", d |-> <<>>]
Dict(f) == [type |-> "dict", d |-> f]
has_key(auth, k) == k \in DOMAIN auth.d

\* Python's truth value of what parse_authstring returned
Truthy(auth) == auth.type = "dict" /\ DOMAIN auth.d # {}

\* parse_authstring without the test of the scheme: only `if not authstring`
parse_authstring_NoSchemeCheck(authstring) ==
    IF ~authstring.present \/ authstring.value = <<>>
    THEN Returns(PyFalse)
    ELSE
      LET rest  == SubSeq(authstring.value, 5, Len(authstring.value))
          pairs == split(strip(rest, Whitespace), ",")
          kv    == [i \in 1..Len(pairs) |->
                       split1(strip(pairs[i], Whitespace), "=")]
      IN  IF \E i \in 1..Len(pairs) : Len(kv[i]) # 2
          THEN Raises("ValueError")
          ELSE Returns(Dict([k \in {kv[i][1] : i \in 1..Len(pairs)} |->
                  strip(kv[CHOOSE i \in 1..Len(pairs) : kv[i][1] = k][2],
                        Quote)]))

\* parse_authstring that splits a segment on every "=": pair.split("=")
parse_authstring_SplitsEveryEquals(authstring) ==
    IF \/ ~authstring.present
       \/ authstring.value = <<>>
       \/ ~startswith(authstring.value, MAC_)
    THEN Returns(PyFalse)
    ELSE
      LET rest  == SubSeq(authstring.value, 5, Len(authstring.value))
          pairs == split(strip(rest, Whitespace), ",")
          kv    == [i \in 1..Len(pairs) |->
                       split(strip(pairs[i], Whitespace), "=")]
      IN  IF \E i \in 1..Len(pairs) : Len(kv[i]) # 2
          THEN Raises("ValueError")
          ELSE Returns(Dict([k \in {kv[i][1] : i \in 1..Len(pairs)} |->
                  strip(kv[CHOOSE i \in 1..Len(pairs) : kv[i][1] = k][2],
                        Quote)]))

\* parse_authstring(authstring); the header is [present, value]
parse_authstring(authstring) ==
    IF \/ ~authstring.present
       \/ authstring.value = <<>>
       \/ ~startswith(authstring.value, MAC_)
    THEN Returns(PyFalse)
    ELSE
      LET rest  == SubSeq(authstring.value, 5, Len(authstring.value))
          pairs == split(strip(rest, Whitespace), ",")
          kv    == [i \in 1..Len(pairs) |->
                       split1(strip(pairs[i], Whitespace), "=")]
          keys  == {kv[i][1] : i \in 1..Len(pairs)}
          last(k) == CHOOSE i \in 1..Len(pairs) :
                        /\ kv[i][1] = k
                        /\ \A j \in (i + 1)..Len(pairs) : kv[j][1] # k
      IN  IF \E i \in 1..Len(pairs) : Len(kv[i]) # 2
          THEN Raises("ValueError")
          ELSE Returns(Dict([k \in keys |-> strip(kv[last(k)][2], Quote)]))

\* the dict lookup auth[k]: a bool has no __getitem__, a dict may lack k
getitem(auth, k) ==
    IF auth.type # "dict" THEN Raises("TypeError")
    ELSE IF ~has_key(auth, k) THEN Raises("KeyError")
    ELSE Returns(auth.d[k])

NL == <<"\n">>

\* normalize_request that leaves the "?" out when the query is empty
normalize_request_NoBareQuestionMark(req) ==
    LET parsed == parse_authstring(req.header)
        auth   == parsed.val
        full_path == IF req.query_string = <<>> THEN req.path
                     ELSE req.path \o <<"?">> \o req.query_string
        ext    == IF has_key(auth, K_ext) THEN auth.d[K_ext] ELSE <<>>
    IN  IF parsed.kind = "raise" THEN parsed
        ELSE IF auth.type # "dict" THEN Raises("AttributeError")
        ELSE IF getitem(auth, K_ts).kind = "raise" THEN getitem(auth, K_ts)
        ELSE IF getitem(auth, K_nonce).kind = "raise"
             THEN getitem(auth, K_nonce)
        ELSE Returns(join(NL, <<auth.d[K_ts], auth.d[K_nonce], req.method,
                                full_path, req.host, <<"8", "0">>, ext>>))

\* normalize_request that writes the port the request arrived on
normalize_request_UsesPort(req) ==
    LET parsed == parse_authstring(req.header)
        auth   == parsed.val
        full_path == req.path \o <<"?">> \o req.query_string
        ext    == IF has_key(auth, K_ext) THEN auth.d[K_ext] ELSE <<>>
    IN  IF parsed.kind = "raise" THEN parsed
        ELSE IF auth.type # "dict" THEN Raises("AttributeError")
        ELSE IF getitem(auth, K_ts).kind = "raise" THEN getitem(auth, K_ts)
        ELSE IF getitem(auth, K_nonce).kind = "raise"
             THEN getitem(auth, K_nonce)
        ELSE Returns(join(NL, <<auth.d[K_ts], auth.d[K_nonce], req.method,
                                full_path, req.host, req.port, ext>>))

\* normalize_request(request)
normalize_request(req) ==
    LET parsed == parse_authstring(req.header)
        auth   == parsed.val
        full_path == req.path \o <<"?">> \o req.query_string
        ext    == IF has_key(auth, K_ext) THEN auth.d[K_ext] ELSE <<>>
    IN  IF parsed.kind = "raise" THEN parsed
        ELSE IF auth.type # "dict" THEN Raises("AttributeError")
        ELSE IF getitem(auth, K_ts).kind = "raise" THEN getitem(auth, K_ts)
        ELSE IF getitem(auth, K_nonce).kind = "raise"
             THEN getitem(auth, K_nonce)
        ELSE Returns(join(NL, <<auth.d[K_ts], auth.d[K_nonce], req.method,
                                full_path, req.host, <<"8", "0">>, ext>>))

\* hmac.new(key, msg, sha256).digest(): an ideal keyed digest, one value per
\* (key, message); the value doubles as the digest's base64 data characters
hmac_sha256(key, msg) == "hmac(" \o Text(key) \o "," \o Text(msg) \o ")"

\* base64.b64encode(digest): the text of a 32-byte digest ends in one "="
b64encode(digest) == <<digest, "=">>

\* base64.encodestring(digest): the same text followed by a newline
encodestring(digest) == <<digest, "=", "\n">>

\* check_request(request, key)
check_request(req, key) ==
    LET parsed == parse_authstring(req.header)
        reqmac == getitem(parsed.val, K_mac)
        norm   == normalize_request(req)
    IN  IF parsed.kind = "raise" THEN parsed
        ELSE IF reqmac.kind = "raise" THEN reqmac
        ELSE IF norm.kind = "raise" THEN norm
        ELSE Returns(reqmac.val = encodestring(hmac_sha256(key, norm.val)))

\* authenticate_response()
authenticate_response ==
    [status |-> "401",
     headers |-> [WWW_Authenticate |-> "MAC"],
     body |-> "Invalid MAC Credentials\n"]

\* what the protected view (a method of FollowerView) returns
ViewResponse(req) ==
    [status |-> "200", headers |-> [WWW_Authenticate |-> ""],
     body |-> Text(req.method)]

NoResponse == [status |-> "", headers |-> [WWW_Authenticate |-> ""], body |-> ""]

\* KeyPair.objects.filter(mac_id=id), on the stored documents
filter_mac_id(stored, id) == {kp \in stored : kp.mac_id = id}

\* wrapped that calls the view before it tests auth
wrapped_ViewBeforeTest(req, stored) ==
    LET parsed == parse_authstring(req.header)
        auth   == parsed.val
        id     == getitem(auth, K_id)
    IN  IF parsed.kind = "raise"
        THEN [result |-> parsed, calls |-> 0]
        ELSE IF ~Truthy(auth)
        THEN [result |-> Returns(authenticate_response), calls |-> 1]
        ELSE IF id.kind = "raise"
        THEN [result |-> id, calls |-> 1]
        ELSE [result |-> Returns(ViewResponse(req)), calls |-> 1]

\* wrapped with the test of auth inverted: `if auth:` for `if not auth:`
wrapped_InvertedTest(req, stored) ==
    LET parsed == parse_authstring(req.header)
        auth   == parsed.val
        id     == getitem(auth, K_id)
    IN  IF parsed.kind = "raise"
        THEN [result |-> parsed, calls |-> 0]
        ELSE IF Truthy(auth)
        THEN [result |-> Returns(authenticate_response), calls |-> 0]
        ELSE IF id.kind = "raise"
        THEN [result |-> id, calls |-> 0]
        ELSE [result |-> Returns(ViewResponse(req)), calls |-> 1]

\* require_authorization(func).wrapped, with the KeyPair collection as it is
\* when the request arrives: the result, and the number of calls of func
wrapped(req, stored) ==
    LET parsed == parse_authstring(req.header)
        auth   == parsed.val
        id     == getitem(auth, K_id)
        found  == filter_mac_id(stored, id.val)  \* looked up, never consulted
    IN  IF parsed.kind = "raise"
        THEN [result |-> parsed, calls |-> 0]
        ELSE IF ~Truthy(auth)
        THEN [result |-> Returns(authenticate_response), calls |-> 0]
        ELSE IF id.kind = "raise"
        THEN [result |-> id, calls |-> 0]
        ELSE [result |-> Returns(ViewResponse(req)), calls |-> 1]

-----------------------------------------------------------------------------
(* Issuing keypairs *)

KeyIds == {<<"1">>, <<"2">>}
Keys   == {<<"k", "1">>, <<"k", "2">>}

\* generate_keypair(): the digests of fresh random bits, any id and any key
generate_keypair == {<<keyid, key>> : keyid \in KeyIds, key \in Keys}

NoPair == <<<<>>, <<>>>>

-----------------------------------------------------------------------------
(* The requests clients send *)

GET == <<"G", "E", "T">>
PUT == <<"P", "U", "T">>
DELETE == <<"D", "E", "L", "E", "T", "E">>

\* the method of FollowerView that MethodView dispatches the request to,
\* by the operation it runs
FollowerView(method) ==
    CASE method = GET    -> "get_or_404"
      [] method = PUT    -> "update_follower"
      [] method = DELETE -> "stop_following"

NotExecuted == "none"

\* the port the server received a request on
Port80  == <<"8", "0">>
Port443 == <<"4", "4", "3">>
Ports   == {Port80, Port443}

Absent    == [present |-> FALSE, value |-> <<>>]
Header(v) == [present |-> TRUE, value |-> v]

\* k="v"
Param(k, v) == k \o <<"=", "\"">> \o v \o <<"\"">>

\* MAC id="..", ts="..", nonce="..", mac=".."[, ext=".."]
AuthHeader(id, ts, nonce, mac, ext) ==
    Header(MAC_ \o join(<<",", " ">>,
        <<Param(K_id, id), Param(K_ts, ts), Param(K_nonce, nonce),
          Param(K_mac, mac)>>
        \o (IF ext.present THEN <<Param(K_ext, ext.value)>> ELSE <<>>)))

Request(method, query, header) ==
    [method |-> method, path |-> <<"/", "f">>, query_string |-> query,
     host |-> <<"h">>, port |-> Port80, header |-> header]

\* the same request received on another port
OnPort(req, port) == [req EXCEPT !.port = port]

\* the canonical string of a request that carries these parameters
CanonicalOf(method, query, id, ts, nonce, ext) ==
    normalize_request(
        Request(method, query, AuthHeader(id, ts, nonce, <<>>, ext))).val

NoExt == Absent
Ext   == Header(<<"e">>)
TS    == <<"7">>

\* the value of the mac parameter, by how the client made it
MacValue(style, key, canonical, other) ==
    CASE style = "b64"   -> b64encode(hmac_sha256(key, canonical))
      [] style = "lines" -> encodestring(hmac_sha256(key, canonical))
      [] style = "stale" -> encodestring(hmac_sha256(key, other))
      [] style = "short" -> <<"x">>
      [] style = "empty" -> <<>>

SignedRequest(method, query, id, nonce, ext, style, key) ==
    Request(method, query,
        AuthHeader(id, TS, nonce,
            MacValue(style, key,
                CanonicalOf(method, query, id, TS, nonce, ext),
                CanonicalOf(method, query, id, TS, <<"o">>, ext)),
            ext))

MalformedHeaders ==
    { Absent,
      Header(<<>>),
      Header(<<"B", "a", "s", "i", "c", " ", "a", "b", "c">>),
      Header(<<"M", "A", "C">>),
      Header(MAC_),
      Header(MAC_ \o Param(K_id, <<"1">>)),
      Header(MAC_ \o Param(K_ts, TS)),
      Header(MAC_ \o K_id) }

\* the same parameter with spaces around the key, the "=" and the value
SpacedParam(k, v, before, mid1, mid2, after) ==
    before \o k \o mid1 \o <<"=">> \o mid2 \o <<"\"">> \o v \o <<"\"">>
    \o after

Spaces == {<<>>, <<" ">>}

\* MAC id="1" with and without spaces around its parts
SpacedHeaders ==
    { Header(MAC_ \o SpacedParam(K_id, <<"1">>, b, m1, m2, a)) :
        b \in Spaces, m1 \in Spaces, m2 \in Spaces, a \in Spaces }

\* the parameters of the signed requests:
\* <<method, query, id, nonce, ext, style of the mac, signing key>>
SignedParams ==
    { <<GET, <<>>, id, <<"n">>, NoExt, "b64", key>> :
        id \in KeyIds, key \in Keys }
    \cup
    { <<GET, <<>>, <<"1">>, <<"m">>, NoExt, "b64", <<"k", "1">>>> }
    \cup
    { <<PUT, <<"q">>, <<"1">>, <<"n">>, Ext, style, <<"k", "1">>>> :
        style \in {"b64", "lines", "stale", "short", "empty"} }
    \cup
    { <<GET, <<>>, <<"1">>, <<"n">>, NoExt, style, <<"k", "1">>>> :
        style \in {"lines", "stale", "short", "empty"} }

Signed(p) == SignedRequest(p[1], p[2], p[3], p[4], p[5], p[6], p[7])

Requests ==
    { Signed(p) : p \in SignedParams }
    \cup
    { Request(GET, <<>>, h) : h \in MalformedHeaders \cup SpacedHeaders }
    \cup
    { Signed(<<DELETE, <<>>, <<"1">>, <<"n">>, NoExt, "lines", <<"k", "1">>>>),
      Request(DELETE, <<>>, Absent),
      Request(PUT, <<>>, Header(<<"B", "a", "s", "i", "c", " ", "a", "b", "c">>)),
      OnPort(Signed(<<GET, <<>>, <<"1">>, <<"n">>, NoExt, "lines", <<"k", "1">>>>),
             Port443),
      OnPort(Signed(<<PUT, <<"q">>, <<"1">>, <<"n">>, Ext, "lines", <<"k", "1">>>>),
             Port443) }

-----------------------------------------------------------------------------
(* The state machine *)

\* each function's result per input, evaluated once
ParseResult == [req \in Requests |-> parse_authstring(req.header)]
NormalizeResult == [req \in Requests |-> normalize_request(req)]
CheckResult ==
    [x \in {<<req, key>> : req \in Requests, key \in Keys}
        |-> check_request(x[1], x[2])]

\* any set of KeyPair documents
Repositories ==
    SUBSET {[mac_id |-> pair[1], mac_key |-> pair[2]] :
               pair \in generate_keypair}
WrappedResult ==
    [x \in {<<req, stored>> : req \in Requests, stored \in Repositories}
        |-> wrapped(x[1], x[2])]

NoCall == [fn |-> "none", key |-> <<>>, result |-> Returns(FALSE)]

NoCreation == [cls |-> "", kwargs |-> [entity_id |-> 0, schema |-> ""],
               result |-> Returns(0)]

\* the server starts with no keypair issued and no request served
Init ==
    /\ keypairs = {}
    /\ issuer = [p \in Issuers |-> [pc |-> "start", pair |-> NoPair]]
    /\ request = Request(GET, <<>>, Absent)
    /\ call = NoCall
    /\ response = NoResponse
    /\ invoked = 0
    /\ handled = 0
    /\ executed = NotExecuted
    /\ profiles = {}
    /\ created = NoCreation

\* an issuing process calls generate_keypair()
GenerateKeypair(p) ==
    /\ issuer[p].pc = "start"
    /\ \E pair \in generate_keypair :
          issuer' = [issuer EXCEPT ![p] = [pc |-> "generated", pair |-> pair]]
    /\ UNCHANGED <<keypairs, request, call, response, invoked, handled,
                   executed, profiles, created>>

\* an insert that does not look for the id first
insert_keypair_Unchecked(stored, pair) ==
    [ok |-> TRUE,
     stored |-> stored \cup {[mac_id |-> pair[1], mac_key |-> pair[2]]}]

\* the repository's insert of the generated pair, refused when the id is taken
insert_keypair(stored, pair) ==
    IF \E kp \in stored : kp.mac_id = pair[1]
    THEN [ok |-> FALSE, stored |-> stored]
    ELSE [ok |-> TRUE,
          stored |-> stored \cup {[mac_id |-> pair[1], mac_key |-> pair[2]]}]

\* the process stores its pair: insert-if-absent on the id, in one step;
\* on a collision it goes back to generate another id
StoreKeypair(p) ==
    /\ issuer[p].pc = "generated"
    /\ LET r == insert_keypair(keypairs, issuer[p].pair)
       IN  /\ keypairs' = r.stored
           /\ issuer' = [issuer EXCEPT ![p] =
                 IF r.ok THEN [pc |-> "issued", pair |-> issuer[p].pair]
                 ELSE [pc |-> "start", pair |-> NoPair]]
    /\ UNCHANGED <<request, call, response, invoked, handled,
                   executed, profiles, created>>

\* a request served by a wrapped that deletes the keypair it looked up
Wrapped_ConsumesKeypair(req) ==
    /\ handled < MaxHandled
    /\ LET w == WrappedResult[<<req, keypairs>>]
       IN  /\ request' = req
           /\ call' = [fn |-> "wrapped", key |-> <<>>, result |-> w.result]
           /\ response' = IF w.result.kind = "return" THEN w.result.val
                          ELSE NoResponse
           /\ invoked' = w.calls
           /\ executed' = IF w.calls = 1 THEN FollowerView(req.method)
                          ELSE NotExecuted
           /\ keypairs' = IF w.calls = 1
                          THEN keypairs \ filter_mac_id(keypairs,
                                              ParseResult[req].val.d[K_id])
                          ELSE keypairs
    /\ handled' = handled + 1
    /\ UNCHANGED <<issuer, profiles, created>>

\* a request to /followers/<follower_id>: the view function is
\* require_authorization's wrapped, which calls the method of FollowerView
Wrapped(req) ==
    /\ handled < MaxHandled
    /\ LET w == WrappedResult[<<req, keypairs>>]
       IN  /\ request' = req
           /\ call' = [fn |-> "wrapped", key |-> <<>>, result |-> w.result]
           /\ response' = IF w.result.kind = "return" THEN w.result.val
                          ELSE NoResponse
           /\ invoked' = w.calls
           /\ executed' = IF w.calls = 1 THEN FollowerView(req.method)
                          ELSE NotExecuted
    /\ handled' = handled + 1
    /\ UNCHANGED <<keypairs, issuer, profiles, created>>

Next ==
    \/ \E p \in Issuers : GenerateKeypair(p)
    \/ \E p \in Issuers : StoreKeypair(p)
    \/ \E req \in Requests : Wrapped(req)

Spec == Init /\ [][Next]_vars

-----------------------------------------------------------------------------
(* The functions of auth.py on their own: any request, then calls on it *)

PureInit ==
    /\ keypairs = {}
    /\ issuer = [p \in Issuers |-> [pc |-> "start", pair |-> NoPair]]
    /\ request \in Requests
    /\ call = NoCall
    /\ response = NoResponse
    /\ invoked = 0
    /\ handled = 0
    /\ executed = NotExecuted
    /\ profiles = {}
    /\ created = NoCreation

\* a call of parse_authstring on the request's Authorization header
ParseAuthstring ==
    /\ call' = [fn |-> "parse_authstring", key |-> <<>>,
                result |-> ParseResult[request]]
    /\ UNCHANGED <<keypairs, issuer, request, response, invoked, handled,
                   executed, profiles, created>>

\* a call of normalize_request on the request
NormalizeRequest ==
    /\ call' = [fn |-> "normalize_request", key |-> <<>>,
                result |-> NormalizeResult[request]]
    /\ UNCHANGED <<keypairs, issuer, request, response, invoked, handled,
                   executed, profiles, created>>

\* a call of check_request on the request, with a key
CheckRequest(key) ==
    /\ call' = [fn |-> "check_request", key |-> key,
                result |-> CheckResult[<<request, key>>]]
    /\ UNCHANGED <<keypairs, issuer, request, response, invoked, handled,
                   executed, profiles, created>>

PureNext ==
    \/ ParseAuthstring
    \/ NormalizeRequest
    \/ \E key \in Keys : CheckRequest(key)

PureSpec == PureInit /\ [][PureNext]_vars

-----------------------------------------------------------------------------
(* Profiles (tentd/models/profiles.py) *)

CoreSchema  == "https://tent.io/types/info/core/v0.1.0"
BasicSchema == "https://tent.io/types/info/basic/v0.1.0"

\* Python's None, equal to no str
None == "<None>"

Classes == {"Profile", "CoreProfile", "BasicProfile", "GenericProfile"}

\* hasattr(cls, '__schema__') and cls.__schema__
has_schema(cls) == cls \in {"CoreProfile", "BasicProfile"}
class_schema(cls) ==
    CASE cls = "CoreProfile"  -> CoreSchema
      [] cls = "BasicProfile" -> BasicSchema

\* __mapper_args__['polymorphic_identity'], the value of the type column
polymorphic_identity(cls) ==
    CASE cls = "CoreProfile"    -> "core"
      [] cls = "BasicProfile"   -> "profile"
      [] cls = "GenericProfile" -> "generic"

\* the entities and the schema arguments callers pass; None when left out
EntityIds  == {1, 2}
SchemaArgs == {None, CoreSchema, "x"}

\* Profile.__init__ that keeps the schema the caller passed
Profile__init___KeepsCallerSchema(cls, kwargs) ==
    IF cls = "Profile" THEN Raises("NotImplementedError")
    ELSE Returns([entity_id |-> kwargs.entity_id,
                  schema |-> IF kwargs.schema # None THEN kwargs.schema
                             ELSE IF has_schema(cls) THEN class_schema(cls)
                             ELSE None,
                  type |-> polymorphic_identity(cls)])

\* Profile.__init__(**kwargs), called for an instance of cls
Profile__init__(cls, kwargs) ==
    IF cls = "Profile" THEN Raises("NotImplementedError")
    ELSE Returns([entity_id |-> kwargs.entity_id,
                  schema |-> IF has_schema(cls) THEN class_schema(cls)
                             ELSE kwargs.schema,
                  type |-> polymorphic_identity(cls)])

\* the INSERT of a row into the profile table under its constraints:
\* schema is not nullable and (entity_id, schema) is unique
insert_profile(stored, row) ==
    IF \/ row.schema = None
       \/ \E p \in stored :
             p.entity_id = row.entity_id /\ p.schema = row.schema
    THEN [result |-> Raises("IntegrityError"), stored |-> stored]
    ELSE [result |-> Returns(Cardinality(stored) + 1),
          stored |-> stored \cup
              {[id |-> Cardinality(stored) + 1, entity_id |-> row.entity_id,
                schema |-> row.schema, type |-> row.type]}]

ProfileInit ==
    /\ keypairs = {}
    /\ issuer = [p \in Issuers |-> [pc |-> "start", pair |-> NoPair]]
    /\ request = Request(GET, <<>>, Absent)
    /\ call = NoCall
    /\ response = NoResponse
    /\ invoked = 0
    /\ handled = 0
    /\ executed = NotExecuted
    /\ profiles = {}
    /\ created = NoCreation

\* cls(**kwargs) is created, added to the session and committed
CreateProfile(cls, kwargs) ==
    /\ Cardinality(profiles) < MaxProfiles
    /\ LET made == Profile__init__(cls, kwargs)
           r    == insert_profile(profiles, made.val)
       IN  IF made.kind = "raise"
           THEN /\ profiles' = profiles
                /\ created' = [cls |-> cls, kwargs |-> kwargs, result |-> made]
           ELSE /\ profiles' = r.stored
                /\ created' = [cls |-> cls, kwargs |-> kwargs,
                               result |-> r.result]
    /\ UNCHANGED <<keypairs, issuer, request, call, response, invoked,
                   handled, executed>>

ProfileNext ==
    \E cls \in Classes, e \in EntityIds, s \in SchemaArgs :
        CreateProfile(cls, [entity_id |-> e, schema |-> s])

ProfileSpec == ProfileInit /\ [][ProfileNext]_vars

-----------------------------------------------------------------------------
(* The terms the properties are stated in *)

RequiredKeys == {K_id, K_ts, K_nonce, K_mac}

\* the header parsed to a dict that carries id, ts, nonce and mac
WellFormed(req) ==
    /\ ParseResult[req].kind = "return"
    /\ ParseResult[req].val.type = "dict"
    /\ RequiredKeys \subseteq DOMAIN ParseResult[req].val.d

Field(req, k) == ParseResult[req].val.d[k]

\* the base64 text of the HMAC-SHA256 of the request's canonical string
Signature(req, key) == b64encode(hmac_sha256(key, NormalizeResult[req].val))

\* the mac parameter is that text, with or without a final line break
SignedWith(req, key) ==
    /\ WellFormed(req)
    /\ \/ Field(req, K_mac) = Signature(req, key)
       \/ Field(req, K_mac) = Signature(req, key) \o NL

KnownId(req, stored) ==
    WellFormed(req) /\ \E kp \in stored : kp.mac_id = Field(req, K_id)

UnknownId(req, stored) ==
    WellFormed(req) /\ \A kp \in stored : kp.mac_id # Field(req, K_id)

\* signed with the secret of the keypair its id names
ValidlySigned(req, stored) ==
    /\ WellFormed(req)
    /\ \E kp \in stored :
          kp.mac_id = Field(req, K_id) /\ SignedWith(req, kp.mac_key)

\* the id names a keypair, and the mac was made with another secret
WrongSecret(req, stored) ==
    /\ KnownId(req, stored)
    /\ ~ValidlySigned(req, stored)
    /\ \E key \in Keys : SignedWith(req, key)

\* the Gate's Authorized state: parsed, keypair found, verifier reports a match
Authorized(req, stored) ==
    /\ WellFormed(req)
    /\ \E kp \in stored :
          /\ kp.mac_id = Field(req, K_id)
          /\ CheckResult[<<req, kp.mac_key>>] = Returns(TRUE)

Challenge401 ==
    [status |-> "401", headers |-> [WWW_Authenticate |-> "MAC"],
     body |-> "Invalid MAC Credentials\n"]

\* the scheme of a header value: the text before its first space
Scheme(value) == split(value, " ")[1]

NoMacCredentials(header) ==
    \/ ~header.present
    \/ header.value = <<>>
    \/ Scheme(header.value) # <<"M", "A", "C">>

-----------------------------------------------------------------------------
(* The properties *)

\* C1: the protected view is called only for a request whose header parsed,
\* whose id names a stored keypair and whose signature check_request
\* reports as matching under that keypair's key.
C1_InvokedOnlyWhenAuthorized ==
    invoked > 0 => Authorized(request, keypairs)

\* C2: a request with an unknown id and a request with a known id signed
\* with the wrong secret are both answered with the same 401 challenge.
C2_FailuresGetSameChallenge ==
    (/\ call.fn = "wrapped"
     /\ UnknownId(request, keypairs) \/ WrongSecret(request, keypairs))
    => (response = Challenge401 /\ invoked = 0)

C4_SignVerifyRoundTrip ==
    (call.fn = "check_request" /\ WellFormed(request))
    => (call.result = Returns(Field(request, K_mac)
                                = Signature(request, call.key)))

\* C5: a request with no Authorization header, an empty one, or one of
\* another scheme gets 401 with WWW-Authenticate: MAC and the fixed body,
\* and the protected view is not called.
C5_NoCredentialsChallenged ==
    (call.fn = "wrapped" /\ NoMacCredentials(request.header))
    => /\ call.result = Returns(Challenge401)
       /\ response = Challenge401
       /\ invoked = 0

C5_Witness ==
    /\ call.fn = "wrapped"
    /\ request.header.present
    /\ Scheme(request.header.value) = <<"B", "a", "s", "i", "c">>
    /\ response = Challenge401

\* C6: for a header of scheme MAC, parse_authstring never returns a dict
\* that lacks one of id, ts, nonce, mac.
C6_NoPartialResult ==
    (/\ call.fn = "parse_authstring"
     /\ call.result.kind = "return"
     /\ call.result.val.type = "dict")
    => RequiredKeys \subseteq DOMAIN call.result.val.d

\* C7: when the protected view was called for a validly signed request, the
\* next validly signed request with the same (id, nonce) is rejected and the
\* view is not called for it.
C7_ReplayRejected ==
    [][ (/\ call.fn = "wrapped" /\ invoked = 1
         /\ ValidlySigned(request, keypairs)
         /\ call'.fn = "wrapped" /\ handled' = handled + 1
         /\ ValidlySigned(request', keypairs')
         /\ Field(request', K_id) = Field(request, K_id)
         /\ Field(request', K_nonce) = Field(request, K_nonce))
        => (invoked' = 0 /\ response' = Challenge401) ]_vars

\* C8: the ids of the keypairs that concurrent issuing processes have
\* stored are pairwise distinct.
C8_IssuedIdsDistinct ==
    \A p, q \in Issuers :
        (p # q /\ issuer[p].pc = "issued" /\ issuer[q].pc = "issued")
        => issuer[p].pair[1] # issuer[q].pair[1]

C8_Witness ==
    /\ \A p \in {1, 2} : issuer[p].pc = "issued"
    /\ Cardinality(keypairs) = 2

\* C9: the canonical string is ts, nonce, method, path "?" query, host, port
\* and ext, in this order, joined by line breaks: seven fields, the "?" there
\* when the query is empty, the last field empty when no ext was sent.
C9_CanonicalLayout ==
    (call.fn = "normalize_request" /\ call.result.kind = "return")
    => /\ call.result.val =
            Field(request, K_ts) \o NL \o Field(request, K_nonce) \o NL
            \o request.method \o NL
            \o request.path \o <<"?">> \o request.query_string \o NL
            \o request.host \o NL \o <<"8", "0">> \o NL
            \o (IF K_ext \in DOMAIN ParseResult[request].val.d
                THEN Field(request, K_ext) ELSE <<>>)
       /\ Len(split(call.result.val, "\n")) = 7

C9_Witness ==
    /\ call.fn = "normalize_request"
    /\ call.result.kind = "return"
    /\ request.query_string = <<>>
    /\ K_ext \notin DOMAIN ParseResult[request].val.d
    /\ split(call.result.val, "\n")[4] = <<"/", "f", "?">>
    /\ split(call.result.val, "\n")[7] = <<>>

\* C10: for every request and every key check_request returns a boolean and
\* never raises.
C10_CheckNeverRaises ==
    call.fn = "check_request"
    => (call.result.kind = "return" /\ call.result.val \in BOOLEAN)

-----------------------------------------------------------------------------
(* The parser's results *)

\* the fields the header of a signed request carries, as the client wrote them
Carried(p) ==
    LET fields == [k \in {K_id, K_ts, K_nonce, K_mac} |->
                     CASE k = K_id    -> p[3]
                       [] k = K_ts    -> TS
                       [] k = K_nonce -> p[4]
                       [] k = K_mac   ->
                            MacValue(p[6], p[7],
                                CanonicalOf(p[1], p[2], p[3], TS, p[4], p[5]),
                                CanonicalOf(p[1], p[2], p[3], TS, <<"o">>, p[5]))]
    IN  IF p[5].present
        THEN [k \in {K_id, K_ts, K_nonce, K_mac, K_ext} |->
                 IF k = K_ext THEN p[5].value ELSE fields[k]]
        ELSE fields

\* each signed request with the fields it carries
Sent == {<<Signed(p), Carried(p)>> : p \in SignedParams}

\* C11: parsing a well-formed header returns exactly the fields it carries,
\* each value without its quotes, no ext when none was sent, and a value
\* that contains "=" (the padding of mac) whole.
C11_ParseReturnsCarriedFields ==
    call.fn = "parse_authstring"
    => \A x \in Sent :
          x[1] = request => call.result = Returns(Dict(x[2]))

C11_Witness ==
    /\ call.fn = "parse_authstring"
    /\ \E x \in Sent : x[1] = request
    /\ call.result.kind = "return"
    /\ K_ext \notin DOMAIN call.result.val.d
    /\ find(call.result.val.d[K_mac], "=") = Len(call.result.val.d[K_mac])
    /\ Len(call.result.val.d[K_mac]) = 2

\* C12: headers that differ only in spaces around the key, the "=" or the
\* quoted value parse to the same fields: key id, value 1.
C12_WhitespaceTrimmed ==
    (call.fn = "parse_authstring" /\ request.header \in SpacedHeaders)
    => call.result = Returns(Dict([k \in {K_id} |-> <<"1">>]))

-----------------------------------------------------------------------------
(* Profiles, the gate and the follower views *)

\* C13: after any sequence of creations (entity_id, schema) is unique over
\* the stored profiles, and an entity has at most one CoreProfile and at most
\* one BasicProfile, whatever schema the caller passed.
C13_EntitySchemaUnique ==
    /\ \A a, b \in profiles :
          (a.entity_id = b.entity_id /\ a.schema = b.schema) => a = b
    /\ \A a, b \in profiles :
          (/\ a.entity_id = b.entity_id
           /\ a.type = b.type
           /\ a.type \in {"core", "profile"}) => a = b

C13_Witness ==
    /\ created.cls = "CoreProfile"
    /\ created.kwargs.schema = "x"
    /\ created.result = Raises("IntegrityError")
    /\ \E a \in profiles :
          a.type = "core" /\ a.entity_id = created.kwargs.entity_id

\* C14: for every Authorization value parse_authstring returns a field set
\* or the parse failure, and the guarded view returns the 401 challenge or
\* the protected operation's result; nothing raises.
C14_GateTotal ==
    call.fn = "wrapped"
    => /\ ParseResult[request].kind = "return"
       /\ \/ call.result = Returns(authenticate_response)
          \/ call.result = Returns(ViewResponse(request))

\* C15: no operation of FollowerView is executed for a request that was
\* answered with the 401 challenge.
C15_ChallengedNeverExecuted ==
    (call.fn = "wrapped" /\ response = authenticate_response)
    => executed = NotExecuted

C15_Witness ==
    /\ call.fn = "wrapped"
    /\ response = authenticate_response
    /\ request.method \in {PUT, DELETE}
    /\ executed = NotExecuted
    /\ handled = 2

\* C16: a request served by the gate leaves the stored keypairs and the
\* issuing processes as they were, and its outcome is the one the request
\* gets with these keypairs, whatever was served before.
C16_VerificationHasNoSideEffects ==
    [][handled' # handled
        => /\ keypairs' = keypairs
           /\ issuer' = issuer
           /\ call'.result = WrappedResult[<<request', keypairs>>].result
           /\ invoked' = WrappedResult[<<request', keypairs>>].calls]_vars

C16_Witness ==
    /\ handled = 2
    /\ call.fn = "wrapped"
    /\ invoked = 1
    /\ filter_mac_id(keypairs, ParseResult[request].val.d[K_id]) # {}

\* C17: the port line of the canonical string is 80 whatever port the
\* request was received on: requests that differ in the port only get the
\* same canonical string.
C17_PortLineIsEighty ==
    (call.fn = "normalize_request" /\ call.result.kind = "return")
    => /\ split(call.result.val, "\n")[6] = <<"8", "0">>
       /\ \A port \in Ports :
             normalize_request(OnPort(request, port)) = call.result

C17_Witness ==
    /\ call.fn = "normalize_request"
    /\ call.result.kind = "return"
    /\ request.port = Port443
    /\ split(call.result.val, "\n")[5] = request.host
    /\ split(call.result.val, "\n")[6] = Port80

====
